---------------------------- MODULE Spec2Model ----------------------------
(***************************************************************************)
(* A model of tools/dk.py, the DispatchKernel command line tool.           *)
(*                                                                         *)
(* Text is a sequence of elements.  An element is one character that the   *)
(* scanner or the JSON reader looks at ("{", "}", "[", "]", a quote, a     *)
(* backslash, ":", ",", a back-tick, a blank, a line feed, a digit, "!",   *)
(* "/") or a non-empty run of ASCII letters ("json", "thanks", "null").    *)
(* A JSON value is a tree of nodes [k, s, c]: k the kind, s the characters *)
(* of a string, number or member key, c the children.                      *)
(***************************************************************************)
EXTENDS Integers, Sequences, FiniteSets, TLC

VARIABLES
    exIn,       \* extractor run: the pieces the model response is made of
    exText,     \* extractor run: the model response handed to extract_first_json
    exResult,   \* extractor run: what extract_first_json returned or raised
    stIn,       \* stub run: transcript text, mode and DEFAULT_TIMEZONE
    stResult,   \* stub run: what perform_analysis returned or raised
    inv,        \* the command and its options
    fileKind,   \* what the --input path names
    fileText,   \* the text of the input file of analyze
    rawEnv,     \* os.environ, the allowed variables
    schemas,    \* the state of the two schema files
    settings,   \* env, the Environment load_environment returned
    pc,         \* where the command is
    cur,        \* the mode of the analysis in hand
    transcript, \* text, the transcript text in hand
    exc,        \* the exception raised, if any, and the stage that raised it
    stages,     \* the stages started, in order
    net,        \* the remote calls made, in order
    transcription, \* the result of perform_transcription
    metadata,   \* the result of perform_analysis(text, "metadata", env)
    rollup,     \* the result of perform_analysis(text, "rollup", env)
    analysed,   \* the analysis payload last built or extracted, and its mode
    stdout,     \* the documents written to stdout
    outfile,    \* the documents written to the --out file
    stderr,     \* the text written to stderr
    exit        \* the exit status, -1 while the process runs

exVars == <<exIn, exText, exResult>>

stVars == <<stIn, stResult>>

cliVars == <<inv, fileKind, fileText, rawEnv, schemas, settings, pc, cur, transcript, exc,
             stages, net, transcription, metadata, rollup, analysed, stdout, outfile, stderr,
             exit>>

vars == <<exVars, stVars, cliVars>>

-----------------------------------------------------------------------------
(* Bounds of the model.                                                    *)

\* Nesting depth of the JSON values a model response is built from.
MaxDepth == 2

\* Number of phrases a transcript handed to the stub backend is made of.
MaxPhrases == 2

-----------------------------------------------------------------------------
(* Characters.                                                             *)

\* The back-tick, written as an apostrophe: the module's string syntax has no back-tick.
BT == "'"

Whitespace == {" ", "\n"}

Digits == {"0", "1", "2", "3", "4", "5", "6", "7", "8", "9"}

Punctuation == {"{", "}", "[", "]", "\"", "\\", ":", ",", BT, "!", "/", "-", "+", "."}

\* [a-zA-Z]+ : every element that is not one of the single characters above.
IsLetters(e) == e \notin (Whitespace \cup Digits \cup Punctuation)

-----------------------------------------------------------------------------
(* JSON values, as the json module of Python holds them.                        *)

JNull == [k |-> "null", s |-> <<>>, c |-> <<>>]

JBool(b) == [k |-> IF b THEN "true" ELSE "false", s |-> <<>>, c |-> <<>>]

JNum(digits) == [k |-> "num", s |-> digits, c |-> <<>>]

JStr(chars) == [k |-> "str", s |-> chars, c |-> <<>>]

JArr(items) == [k |-> "arr", s |-> <<>>, c |-> items]

Pair(key, value) == [k |-> "pair", s |-> key, c |-> <<value>>]

JObj(members) == [k |-> "obj", s |-> <<>>, c |-> members]

\* dict.get(key): the member's value, or JNull standing for None.
HasKey(obj, key) == \E i \in 1..Len(obj.c) : obj.c[i].s = key

Get(obj, key) ==
    IF HasKey(obj, key)
    THEN obj.c[CHOOSE i \in 1..Len(obj.c) : obj.c[i].s = key].c[1]
    ELSE JNull

\* dict[key] = value: an existing key keeps its place and takes the new value.
DictPut(members, key, value) ==
    IF \E i \in 1..Len(members) : members[i].s = key
    THEN [i \in 1..Len(members) |->
            IF members[i].s = key THEN Pair(key, value) ELSE members[i]]
    ELSE Append(members, Pair(key, value))

-----------------------------------------------------------------------------
(* json.dumps with its default separators ", " and ": ".                   *)

RECURSIVE EscapeString(_)
EscapeString(chars) ==
    IF chars = <<>> THEN <<>>
    ELSE (IF Head(chars) \in {"\"", "\\"} THEN <<"\\", Head(chars)>> ELSE <<Head(chars)>>)
         \o EscapeString(Tail(chars))

RECURSIVE json_dumps(_)
RECURSIVE DumpItems(_, _)
DumpItems(items, i) ==
    IF i > Len(items) THEN <<>>
    ELSE (IF i > 1 THEN <<",", " ">> ELSE <<>>)
         \o (IF items[i].k = "pair"
             THEN <<"\"">> \o EscapeString(items[i].s) \o <<"\"", ":", " ">>
                  \o json_dumps(items[i].c[1])
             ELSE json_dumps(items[i]))
         \o DumpItems(items, i + 1)

json_dumps(v) ==
    CASE v.k = "null" -> <<"null">>
      [] v.k = "true" -> <<"true">>
      [] v.k = "false" -> <<"false">>
      [] v.k = "num" -> v.s
      [] v.k = "str" -> <<"\"">> \o EscapeString(v.s) \o <<"\"">>
      [] v.k = "arr" -> <<"[">> \o DumpItems(v.c, 1) \o <<"]">>
      [] v.k = "obj" -> <<"{">> \o DumpItems(v.c, 1) \o <<"}">>

-----------------------------------------------------------------------------
(* json.loads: a recursive descent reader.  A read returns [ok, val, pos]: *)
(* pos is the index after the value.                                       *)

ParseFail == [ok |-> FALSE, val |-> JNull, pos |-> 0]

ParseOk(v, p) == [ok |-> TRUE, val |-> v, pos |-> p]

RECURSIVE SkipWs(_, _)
SkipWs(t, i) ==
    IF i <= Len(t) /\ t[i] \in Whitespace THEN SkipWs(t, i + 1) ELSE i

\* The characters of a string literal whose opening quote is at i - 1.
RECURSIVE ParseChars(_, _, _)
ParseChars(t, i, acc) ==
    IF i > Len(t) THEN ParseFail
    ELSE IF t[i] = "\"" THEN ParseOk(JStr(acc), i + 1)
    ELSE IF t[i] = "\n" THEN ParseFail
    ELSE IF t[i] = "\\"
         THEN IF i + 1 <= Len(t) /\ t[i + 1] \in {"\"", "\\"}
              THEN ParseChars(t, i + 2, Append(acc, t[i + 1]))
              ELSE ParseFail
    ELSE ParseChars(t, i + 1, Append(acc, t[i]))

RECURSIVE ParseDigits(_, _, _)
ParseDigits(t, i, acc) ==
    IF i <= Len(t) /\ t[i] \in Digits
    THEN ParseDigits(t, i + 1, Append(acc, t[i]))
    ELSE IF Len(acc) > 1 /\ acc[1] = "0" THEN ParseOk(JNum(<<"0">>), i - Len(acc) + 1)
    ELSE ParseOk(JNum(acc), i)

RECURSIVE ParseValue(_, _)
RECURSIVE ParseMembers(_, _, _)
RECURSIVE ParseElements(_, _, _)

\* After "{" or ",": a key, ":", a value, then "," or "}".
ParseMembers(t, i0, acc) ==
    LET i == SkipWs(t, i0) IN
    IF i > Len(t) \/ t[i] # "\"" THEN ParseFail
    ELSE LET key == ParseChars(t, i + 1, <<>>) IN
         IF ~key.ok THEN ParseFail
         ELSE LET j == SkipWs(t, key.pos) IN
              IF j > Len(t) \/ t[j] # ":" THEN ParseFail
              ELSE LET v == ParseValue(t, j + 1) IN
                   IF ~v.ok THEN ParseFail
                   ELSE LET n == SkipWs(t, v.pos)
                            members == DictPut(acc, key.val.s, v.val)
                        IN IF n > Len(t) THEN ParseFail
                           ELSE IF t[n] = "}" THEN ParseOk(JObj(members), n + 1)
                           ELSE IF t[n] = "," THEN ParseMembers(t, n + 1, members)
                           ELSE ParseFail

\* After "[" or ",": a value, then "," or "]".
ParseElements(t, i0, acc) ==
    LET v == ParseValue(t, i0) IN
    IF ~v.ok THEN ParseFail
    ELSE LET n == SkipWs(t, v.pos) IN
         IF n > Len(t) THEN ParseFail
         ELSE IF t[n] = "]" THEN ParseOk(JArr(Append(acc, v.val)), n + 1)
         ELSE IF t[n] = "," THEN ParseElements(t, n + 1, Append(acc, v.val))
         ELSE ParseFail

ParseValue(t, i0) ==
    LET i == SkipWs(t, i0) IN
    IF i > Len(t) THEN ParseFail
    ELSE CASE t[i] = "{" ->
                LET j == SkipWs(t, i + 1) IN
                IF j <= Len(t) /\ t[j] = "}" THEN ParseOk(JObj(<<>>), j + 1)
                ELSE ParseMembers(t, i + 1, <<>>)
           [] t[i] = "[" ->
                LET j == SkipWs(t, i + 1) IN
                IF j <= Len(t) /\ t[j] = "]" THEN ParseOk(JArr(<<>>), j + 1)
                ELSE ParseElements(t, i + 1, <<>>)
           [] t[i] = "\"" -> ParseChars(t, i + 1, <<>>)
           [] t[i] \in Digits -> ParseDigits(t, i, <<>>)
           [] t[i] = "null" -> ParseOk(JNull, i + 1)
           [] t[i] = "true" -> ParseOk(JBool(TRUE), i + 1)
           [] t[i] = "false" -> ParseOk(JBool(FALSE), i + 1)
           [] OTHER -> ParseFail

\* json.loads(text): one value with nothing but blanks around it, or JSONDecodeError.
json_loads(t) ==
    LET v == ParseValue(t, 1) IN
    IF v.ok /\ SkipWs(t, v.pos) > Len(t) THEN ParseOk(v.val, v.pos) ELSE ParseFail

-----------------------------------------------------------------------------
(* What a function call ends with: a returned value or a raised exception. *)

Return(v) == [exc |-> "", msg |-> <<>>, val |-> v]

Raise(type, message) == [exc |-> type, msg |-> message, val |-> JNull]

\* raise DKError(message)
DKError(message) == Raise("DKError", message)

-----------------------------------------------------------------------------
(* Response Extractor.                                                     *)

IsFenceAt(t, i) == i + 2 <= Len(t) /\ t[i] = BT /\ t[i + 1] = BT /\ t[i + 2] = BT

RECURSIVE SkipLetters(_, _)
SkipLetters(t, i) ==
    IF i <= Len(t) /\ IsLetters(t[i]) THEN SkipLetters(t, i + 1) ELSE i

\* The index of the first fence marker of t at or after i, Len(t) + 1 when there
\* is none: where the next match of either pattern starts.
NextFence(t, i) ==
    IF \E j \in i..Len(t) : IsFenceAt(t, j)
    THEN CHOOSE j \in i..Len(t) : IsFenceAt(t, j) /\ \A n \in i..(j - 1) : ~IsFenceAt(t, n)
    ELSE Len(t) + 1

\* re.sub(r"BT BT BT [a-zA-Z]*", "", text): leftmost matches, left to right.
RECURSIVE SubFences(_, _)
SubFences(t, i) ==
    LET j == NextFence(t, i) IN
    IF j > Len(t) THEN SubSeq(t, i, Len(t))
    ELSE SubSeq(t, i, j - 1) \o SubFences(t, SkipLetters(t, j + 3))

\* fenced.replace(BT BT BT, "")
RECURSIVE ReplaceFences(_, _)
ReplaceFences(t, i) ==
    LET j == NextFence(t, i) IN
    IF j > Len(t) THEN SubSeq(t, i, Len(t))
    ELSE SubSeq(t, i, j - 1) \o ReplaceFences(t, j + 3)

\* str.strip()
RECURSIVE StripRight(_)
StripRight(t) ==
    IF t # <<>> /\ t[Len(t)] \in Whitespace THEN StripRight(SubSeq(t, 1, Len(t) - 1)) ELSE t

Strip(t) == LET i == SkipWs(t, 1) IN StripRight(SubSeq(t, i, Len(t)))

strip_code_fences(text) == Strip(ReplaceFences(SubFences(text, 1), 1))

\* str.find("{"): the index of the first "{", 0 when there is none.
FindBrace(t) ==
    IF \E i \in 1..Len(t) : t[i] = "{"
    THEN CHOOSE i \in 1..Len(t) : t[i] = "{" /\ \A j \in 1..(i - 1) : t[j] # "{"
    ELSE 0

\* The index of the first brace of t at or after i, Len(t) + 1 when there is none.
NextBrace(t, i) ==
    IF \E j \in i..Len(t) : t[j] \in {"{", "}"}
    THEN CHOOSE j \in i..Len(t) :
            t[j] \in {"{", "}"} /\ \A n \in i..(j - 1) : t[n] \notin {"{", "}"}
    ELSE Len(t) + 1

\* The loop without its counter: it stops at the first "}" after i.
ScanBraces_first_close(t, i, depth) ==
    IF \E j \in i..Len(t) : t[j] = "}"
    THEN CHOOSE j \in i..Len(t) : t[j] = "}" /\ \A n \in i..(j - 1) : t[n] # "}"
    ELSE Len(t)

\* The for loop of extract_first_json from index i on, depth being the count so
\* far: the index of the last collected character.  Only a brace changes depth, so
\* the loop is followed from brace to brace.
RECURSIVE ScanBraces(_, _, _)
ScanBraces(t, i, depth) ==
    LET j == NextBrace(t, i) IN
    IF j > Len(t) THEN Len(t)
    ELSE LET d == depth + (IF t[j] = "{" THEN 1 ELSE 0) - (IF t[j] = "}" THEN 1 ELSE 0) IN
         IF d = 0 THEN j ELSE ScanBraces(t, j + 1, d)

\* extract_first_json without its loop: everything from the first "{" on is parsed.
extract_first_json_to_end(text) ==
    LET clean == strip_code_fences(text)
        start == FindBrace(clean)
    IN IF start = 0 THEN DKError(<<"No JSON object found in model response">>)
       ELSE LET parsed == json_loads(SubSeq(clean, start, Len(clean)))
            IN IF parsed.ok THEN Return(parsed.val)
               ELSE DKError(<<"Unable to parse JSON object">>)

extract_first_json(text) ==
    LET clean == strip_code_fences(text)
        start == FindBrace(clean)
    IN IF start = 0 THEN DKError(<<"No JSON object found in model response">>)
       ELSE LET candidate == SubSeq(clean, start, ScanBraces(clean, start, 0))
                parsed == json_loads(candidate)
            IN IF parsed.ok THEN Return(parsed.val)
               ELSE DKError(<<"Unable to parse JSON object">>)

-----------------------------------------------------------------------------
(* Model responses the extractor is run on: a JSON value, serialized,      *)
(* possibly cut short, inside optional prose and code fences.              *)

\* Contents of string values and keys: plain, with braces, with a fence marker.
StringContents ==
    { <<>>, <<"a">>, <<"{">>, <<"}">>, <<"{", "}">>, <<"}", "{">>,
      <<BT, BT, BT>>, <<BT, BT, BT, "js">>, <<"\"">> }

KeyContents == { <<"k">>, <<"}">> }

Atoms == {JNull, JBool(TRUE), JNum(<<"1">>)} \cup {JStr(s) : s \in StringContents}

RECURSIVE Values(_)
Values(d) ==
    IF d = 0 THEN Atoms
    ELSE LET inner == Values(d - 1) IN
         Atoms \cup {JArr(<<>>), JObj(<<>>)}
               \cup {JArr(<<v>>) : v \in inner}
               \cup {JObj(<<Pair(key, v)>>) : key \in KeyContents, v \in inner}
               \cup {JObj(<<Pair(<<"k">>, v), Pair(<<"j">>, JNum(<<"1">>))>>) : v \in inner}

Prefixes == { <<>>, <<"Sure", ":", " ">>, <<"}", " ">> }

Opens == { <<>>, <<BT, BT, BT>>, <<BT, BT, BT, "json", "\n">> }

Closes == { <<>>, <<"\n", BT, BT, BT>> }

Suffixes == { <<>>, <<" ", "thanks", "!">>, <<"}">>, <<" ", "{", "}">> }

ExInputs ==
    [prefix : Prefixes, open : Opens, x : Values(MaxDepth), cut : {0, 1},
     close : Closes, suffix : Suffixes]

\* The serialization of in.x without its last in.cut characters.
ExBody(in) == LET d == json_dumps(in.x) IN SubSeq(d, 1, Len(d) - in.cut)

ExCompose(in) == in.prefix \o in.open \o ExBody(in) \o in.close \o in.suffix

-----------------------------------------------------------------------------
(* Settings: the Environment dataclass with its defaults.                  *)

Environment ==
    [transcribe_backend |-> "openai",
     analyze_backend    |-> "localai",
     openai_api_key     |-> "",
     localai_timeout    |-> 45,
     default_timezone   |-> <<"America/New_York">>]

-----------------------------------------------------------------------------
(* Schema Validator.  The two schema documents are not part of the source  *)
(* files; what they accept is taken from the data model of the             *)
(* specification.                                                          *)

IsString(v) == v.k = "str"

IsStringArray(v) == v.k = "arr" /\ \A i \in 1..Len(v.c) : IsString(v.c[i])

HasString(obj, key) == HasKey(obj, <<key>>) /\ IsString(Get(obj, <<key>>))

HasStringArray(obj, key) == HasKey(obj, <<key>>) /\ IsStringArray(Get(obj, <<key>>))

\* schemas/metadata.schema.json
MetadataSchemaAccepts(p) ==
    /\ p.k = "obj"
    /\ HasString(p, "summary")
    /\ HasStringArray(p, "participants")
    /\ HasString(p, "sentiment")
    /\ HasKey(p, <<"call_datetime">>)
    /\ Get(p, <<"call_datetime">>).k \in {"str", "null"}
    /\ HasString(p, "timezone")
    /\ HasStringArray(p, "action_items")
    /\ HasStringArray(p, "issues")

IsIncident(v) ==
    /\ v.k = "obj"
    /\ HasString(v, "type")
    /\ HasString(v, "description")
    /\ HasString(v, "severity")

\* schemas/rollup.schema.json
RollupSchemaAccepts(p) ==
    /\ p.k = "obj"
    /\ HasString(p, "summary")
    /\ HasKey(p, <<"incidents">>)
    /\ Get(p, <<"incidents">>).k = "arr"
    /\ \A i \in 1..Len(Get(p, <<"incidents">>).c) : IsIncident(Get(p, <<"incidents">>).c[i])
    /\ HasStringArray(p, "next_steps")
    /\ HasString(p, "status")

SchemaAccepts(p, schema_name) ==
    IF schema_name = "metadata" THEN MetadataSchemaAccepts(p) ELSE RollupSchemaAccepts(p)

\* The schema file as load_schema finds it.
SchemaFileStates == {"ok", "missing", "malformed"}

\* validate_payload with the mistake of never raising on a violation.
validate_payload_unchecked(payload, schema_name, schema_file) ==
    IF schema_file = "missing" THEN Raise("FileNotFoundError", <<"No such file or directory">>)
    ELSE IF schema_file = "malformed" THEN Raise("JSONDecodeError", <<"Expecting value">>)
    ELSE Return(JNull)

\* validate_payload: load_schema raises what open() and json.load raise; a
\* violation raises DKError.
validate_payload(payload, schema_name, schema_file) ==
    IF schema_file = "missing" THEN Raise("FileNotFoundError", <<"No such file or directory">>)
    ELSE IF schema_file = "malformed" THEN Raise("JSONDecodeError", <<"Expecting value">>)
    ELSE IF ~SchemaAccepts(payload, schema_name)
         THEN DKError(<<"Schema validation failed for ", schema_name>>)
    ELSE Return(JNull)

-----------------------------------------------------------------------------
(* Stub analysis backend.  A transcript is text as above; the words below  *)
(* are the letter runs the transcripts of the model are made of.           *)

Words == {"Agent", "Caller", "Bob", "Al", "bob", "B", "checkout", "Checkout",
          "config", "change", "AM", "pm", "EST", "hello"}

\* [A-Z][a-zA-Z]+ : the words of two or more letters that start with a capital.
CapitalizedWords == {"Agent", "Caller", "Bob", "Al", "Checkout", "AM", "EST"}

\* The words whose last letters are the marker.
EndsWithMarker(w, marker) == w = marker

\* [APMapm]{2} : the words whose first two letters are among A, P, M, a, p, m, and
\* those of them that have no third letter.
StartsWithAmPm == {"AM", "pm"}

TwoLetterAmPm == {"AM", "pm"}

\* "checkout" in word.lower()
ContainsCheckout(w) == w \in {"checkout", "Checkout"}

\* word.lower() ends with "config"; word.lower() starts with "change"
EndsWithConfig(w) == w = "config"

StartsWithChange(w) == w = "change"

\* re.findall(rf"{marker} ([A-Z][a-zA-Z]+)", text): the matches do not overlap.
RECURSIVE FindNames(_, _, _)
FindNames(t, i, marker) ==
    IF i + 2 > Len(t) THEN <<>>
    ELSE IF EndsWithMarker(t[i], marker) /\ t[i + 1] = " " /\ t[i + 2] \in CapitalizedWords
         THEN <<t[i + 2]>> \o FindNames(t, i + 3, marker)
    ELSE FindNames(t, i + 1, marker)

\* if name not in participants: participants.append(name)
RECURSIVE AppendNew(_, _)
AppendNew(participants, names) ==
    IF names = <<>> THEN participants
    ELSE AppendNew(IF \E i \in 1..Len(participants) : participants[i] = Head(names)
                   THEN participants
                   ELSE Append(participants, Head(names)),
                   Tail(names))

IsDigitAt(t, i) == i >= 1 /\ i <= Len(t) /\ t[i] \in Digits

\* [A-Za-z/]* from i: the index after the last letter or "/".
RECURSIVE SkipZone(_, _)
SkipZone(t, i) ==
    IF i <= Len(t) /\ (t[i] = "/" \/ IsLetters(t[i]))
    THEN SkipZone(t, i + 1) ELSE i

\* The end of a match of \d{1,2}:\d{2}\s?[APMapm]{2}\s?[A-Za-z/]* that starts at i
\* with n digits, 0 when there is none.
TimeMatchEnd(t, i, n) ==
    IF ~(\A d \in 0..(n - 1) : IsDigitAt(t, i + d)) THEN 0
    ELSE IF ~(i + n <= Len(t) /\ t[i + n] = ":") THEN 0
    ELSE IF ~(IsDigitAt(t, i + n + 1) /\ IsDigitAt(t, i + n + 2)) THEN 0
    ELSE LET j == i + n + 3
             w == IF j <= Len(t) /\ t[j] \in Whitespace THEN j + 1 ELSE j
         IN IF ~(w <= Len(t) /\ t[w] \in StartsWithAmPm) THEN 0
            ELSE IF t[w] \in TwoLetterAmPm /\ w + 1 <= Len(t) /\ t[w + 1] \in Whitespace
                 THEN SkipZone(t, w + 2) - 1
            ELSE SkipZone(t, w + 1) - 1

\* re.search of the time pattern: the leftmost start, two digits tried before one.
RECURSIVE TimeSearch(_, _)
TimeSearch(t, i) ==
    IF i > Len(t) THEN <<>>
    ELSE IF TimeMatchEnd(t, i, 2) > 0 THEN SubSeq(t, i, TimeMatchEnd(t, i, 2))
    ELSE IF TimeMatchEnd(t, i, 1) > 0 THEN SubSeq(t, i, TimeMatchEnd(t, i, 1))
    ELSE TimeSearch(t, i + 1)

\* "checkout" in text.lower()
MentionsCheckout(t) == \E i \in 1..Len(t) : ContainsCheckout(t[i])

\* "config change" in text.lower()
MentionsConfigChange(t) ==
    \E i \in 1..Len(t) :
        i + 2 <= Len(t) /\ EndsWithConfig(t[i]) /\ t[i + 1] = " " /\ StartsWithChange(t[i + 2])

StringArray(strings) == JArr([i \in 1..Len(strings) |-> JStr(<<strings[i]>>)])

\* build_metadata_stub with call_datetime set to False when no time is found.
build_metadata_stub_false_time(text, env) ==
    LET participants == AppendNew(AppendNew(<<>>, FindNames(text, 1, "Agent")),
                                  FindNames(text, 1, "Caller"))
        time_match == TimeSearch(text, 1)
    IN JObj(<<
        Pair(<<"summary">>, JStr(<<"Caller reported checkout API timeouts impacting customers; rollback is stabilizing while monitoring continues.">>)),
        Pair(<<"participants">>, StringArray(participants)),
        Pair(<<"sentiment">>, JStr(<<"neutral">>)),
        Pair(<<"call_datetime">>,
             IF time_match # <<>> THEN JStr(Strip(time_match)) ELSE JBool(FALSE)),
        Pair(<<"timezone">>, JStr(env.default_timezone)),
        Pair(<<"action_items">>,
             StringArray(<<"Send summary and next steps", "Monitor checkout stability">>)),
        Pair(<<"issues">>,
             StringArray((IF MentionsCheckout(text) THEN <<"Checkout API timeouts">> ELSE <<>>)
                         \o (IF MentionsConfigChange(text) THEN <<"Recent config change">> ELSE <<>>)))
       >>)

build_metadata_stub(text, env) ==
    LET participants == AppendNew(AppendNew(<<>>, FindNames(text, 1, "Agent")),
                                  FindNames(text, 1, "Caller"))
        time_match == TimeSearch(text, 1)
    IN JObj(<<
        Pair(<<"summary">>, JStr(<<"Caller reported checkout API timeouts impacting customers; rollback is stabilizing while monitoring continues.">>)),
        Pair(<<"participants">>, StringArray(participants)),
        Pair(<<"sentiment">>, JStr(<<"neutral">>)),
        Pair(<<"call_datetime">>,
             IF time_match # <<>> THEN JStr(Strip(time_match)) ELSE JNull),
        Pair(<<"timezone">>, JStr(env.default_timezone)),
        Pair(<<"action_items">>,
             StringArray(<<"Send summary and next steps", "Monitor checkout stability">>)),
        Pair(<<"issues">>,
             StringArray((IF MentionsCheckout(text) THEN <<"Checkout API timeouts">> ELSE <<>>)
                         \o (IF MentionsConfigChange(text) THEN <<"Recent config change">> ELSE <<>>)))
       >>)

Incident(type, description, severity) ==
    JObj(<<Pair(<<"type">>, JStr(<<type>>)),
           Pair(<<"description">>, JStr(<<description>>)),
           Pair(<<"severity">>, JStr(<<severity>>))>>)

build_rollup_stub(text, env) ==
    JObj(<<
        Pair(<<"summary">>, JStr(<<"Intermittent checkout API failures; rollback underway and monitoring in place.">>)),
        Pair(<<"incidents">>,
             JArr((IF MentionsCheckout(text)
                   THEN <<Incident("checkout-api",
                                   "Checkout API is timing out for production customers", "high")>>
                   ELSE <<>>)
                  \o (IF MentionsConfigChange(text)
                      THEN <<Incident("config-change",
                                      "Recent payment gateway config change correlated with incident",
                                      "medium")>>
                      ELSE <<>>))),
        Pair(<<"next_steps">>,
             StringArray(<<"Confirm rollback completion", "Monitor error rates",
                           "Share customer-facing summary">>)),
        Pair(<<"status">>, JStr(<<"monitoring">>))
       >>)

\* mode.lower(), on the spellings the model uses.
LowerMode(mode) ==
    CASE mode = "Metadata" -> "metadata"
      [] mode = "ROLLUP" -> "rollup"
      [] OTHER -> mode

\* The stub branch of perform_analysis: build, validate, return.
perform_analysis_stub(text, mode, env, schema_file) ==
    LET result == IF mode = "metadata" THEN build_metadata_stub(text, env)
                  ELSE build_rollup_stub(text, env)
        checked == validate_payload(result, mode, schema_file)
    IN IF checked.exc # "" THEN checked ELSE Return(result)

\* perform_analysis up to the point where it returns, raises or turns to LocalAI:
\* "call" stands for the call of call_localai_chat that comes next.
perform_analysis_begin(text, mode, env, schema_file) ==
    IF LowerMode(mode) \notin {"metadata", "rollup"}
    THEN DKError(<<"Unsupported analysis mode: ", LowerMode(mode)>>)
    ELSE IF env.analyze_backend = "stub"
         THEN perform_analysis_stub(text, LowerMode(mode), env, schema_file)
    ELSE IF env.analyze_backend # "localai"
         THEN DKError(<<"Unsupported ANALYZE_BACKEND: ", env.analyze_backend>>)
    ELSE Raise("call", <<>>)

\* perform_analysis from the return of call_localai_chat on: validate, return.
perform_analysis_end(raw_output, mode, schema_file) ==
    IF raw_output.exc # "" THEN raw_output
    ELSE LET checked == validate_payload(raw_output.val, LowerMode(mode), schema_file) IN
         IF checked.exc # "" THEN checked ELSE raw_output

-----------------------------------------------------------------------------
(* Configuration Resolver.  A variable of the process environment is       *)
(* [set, val]: os.environ.get gives None when set is FALSE.                *)

Unset == [set |-> FALSE, val |-> <<>>]

SetTo(v) == [set |-> TRUE, val |-> v]

\* if raw_env.get(NAME): the variable is set and not empty.
Given(var) == var.set /\ var.val # <<>>

\* value.strip().lower(), on the spellings the model uses.
NormalizeSelector(val) ==
    CASE val = <<" LocalAI ">> -> "localai"
      [] val = <<"STUB">> -> "stub"
      [] OTHER -> val[1]

DigitValue(d) ==
    CASE d = "0" -> 0 [] d = "1" -> 1 [] d = "2" -> 2 [] d = "3" -> 3 [] d = "4" -> 4
      [] d = "5" -> 5 [] d = "6" -> 6 [] d = "7" -> 7 [] d = "8" -> 8 [] d = "9" -> 9

RECURSIVE DigitsValue(_, _)
DigitsValue(chars, acc) ==
    IF chars = <<>> THEN acc ELSE DigitsValue(Tail(chars), 10 * acc + DigitValue(Head(chars)))

\* int(text): blanks around, an optional sign, then digits and nothing else;
\* ok is FALSE where int raises ValueError.
PyInt(text) ==
    LET t == Strip(text)
        signed == t # <<>> /\ t[1] \in {"-", "+"}
        digits == IF signed THEN Tail(t) ELSE t
    IN IF digits = <<>> \/ \E i \in 1..Len(digits) : digits[i] \notin Digits
       THEN [ok |-> FALSE, val |-> 0]
       ELSE [ok |-> TRUE,
             val |-> IF signed /\ t[1] = "-" THEN 0 - DigitsValue(digits, 0)
                     ELSE DigitsValue(digits, 0)]

\* The Environment after the assignments of load_environment, int() having
\* returned for LOCALAI_TIMEOUT_S where that variable is given.
AssignedEnvironment(raw) ==
    [transcribe_backend |->
        IF Given(raw.TRANSCRIBE_BACKEND)
        THEN NormalizeSelector(raw.TRANSCRIBE_BACKEND.val)
        ELSE Environment.transcribe_backend,
     analyze_backend |->
        IF Given(raw.ANALYZE_BACKEND)
        THEN NormalizeSelector(raw.ANALYZE_BACKEND.val)
        ELSE Environment.analyze_backend,
     openai_api_key |->
        IF Given(raw.OPENAI_API_KEY) THEN raw.OPENAI_API_KEY.val[1]
        ELSE Environment.openai_api_key,
     localai_timeout |->
        IF Given(raw.LOCALAI_TIMEOUT_S) THEN PyInt(raw.LOCALAI_TIMEOUT_S.val).val
        ELSE Environment.localai_timeout,
     default_timezone |->
        IF Given(raw.DEFAULT_TIMEZONE) THEN raw.DEFAULT_TIMEZONE.val
        ELSE Environment.default_timezone]

\* load_environment with the ValueError of int() swallowed: the default stays.
load_environment_lenient(raw) ==
    [exc |-> "", msg |-> <<>>,
     env |-> IF Given(raw.LOCALAI_TIMEOUT_S) /\ ~PyInt(raw.LOCALAI_TIMEOUT_S.val).ok
             THEN [AssignedEnvironment(raw) EXCEPT
                      !.localai_timeout = Environment.localai_timeout]
             ELSE AssignedEnvironment(raw)]

\* load_environment: [exc, msg, env]; exc is "" when the Environment is returned.
load_environment(raw) ==
    IF Given(raw.LOCALAI_TIMEOUT_S) /\ ~PyInt(raw.LOCALAI_TIMEOUT_S.val).ok
    THEN [exc |-> "DKError", msg |-> <<"LOCALAI_TIMEOUT_S must be an integer">>,
          env |-> Environment]
    ELSE [exc |-> "", msg |-> <<>>, env |-> AssignedEnvironment(raw)]

-----------------------------------------------------------------------------
(* Files.                                                                  *)

\* What the --input path names: a regular file, nothing, a directory, or
\* something else that exists (a FIFO, a device).
FileKinds == {"file", "missing", "dir", "other"}

\* ensure_file_exists: not path.exists() or not path.is_file() raises DKError.
ensure_file_exists(kind, path) ==
    IF kind = "missing" \/ kind # "file"
    THEN DKError(<<"Input file not found: ", path>>)
    ELSE Return(JNull)

-----------------------------------------------------------------------------
(* Backend Clients.  An HTTP exchange ends with an exception of requests   *)
(* (raised # "") or with a response: status is resp.status_code, text is   *)
(* resp.text, and json is what resp.json() gives, [ok, val], ok being      *)
(* FALSE where it raises JSONDecodeError.                                  *)

\* bool(v) of a JSON value.
Truthy(v) ==
    CASE v.k \in {"null", "false"} -> FALSE
      [] v.k = "true" -> TRUE
      [] v.k = "num" -> v.s # <<"0">>
      [] v.k = "str" -> v.s # <<>>
      [] OTHER -> v.c # <<>>

\* dict.get(key, default)
GetOr(obj, key, default) == IF HasKey(obj, <<key>>) THEN Get(obj, <<key>>) ELSE default

\* resp.status_code >= 400
IsErrorStatus(status) == status >= 400

\* resp.json() and the first uses of the payload, shared by both LocalAI calls.
http_payload(resp, failed) ==
    IF resp.raised # "" THEN Raise(resp.raised, <<"request failed">>)
    ELSE IF IsErrorStatus(resp.status) THEN DKError(<<failed>> \o resp.text)
    ELSE IF ~resp.json.ok THEN Raise("JSONDecodeError", <<"Expecting value">>)
    ELSE IF resp.json.val.k # "obj"
         THEN Raise("AttributeError", <<"object has no attribute 'get'">>)
    ELSE Return(resp.json.val)

\* transcribe_localai after requests.post: the normalized result or what is raised.
transcribe_localai(resp) ==
    LET payload == http_payload(resp, "LocalAI transcription failed: ") IN
    IF payload.exc # "" THEN payload
    ELSE Return(JObj(<<
            Pair(<<"text">>, GetOr(payload.val, "text", JStr(<<>>))),
            Pair(<<"language">>, GetOr(payload.val, "language", JStr(<<>>))),
            Pair(<<"confidence">>, JNull),
            Pair(<<"duration_s">>, JNull),
            Pair(<<"segments">>,
                 IF Truthy(Get(payload.val, <<"segments">>))
                 THEN Get(payload.val, <<"segments">>) ELSE JArr(<<>>))
         >>))

\* transcribe_openai after client.audio.transcriptions.create.  The response is an
\* SDK object (kind "object": it has attributes and no get method) or a mapping
\* (kind "dict"); a field it lacks is JNull.
transcribe_openai(resp) ==
    IF resp.raised # "" THEN Raise(resp.raised, <<"request failed">>)
    ELSE IF resp.kind = "object"
            /\ ~(Truthy(resp.text) /\ Truthy(resp.segments) /\ Truthy(resp.language))
         THEN Raise("AttributeError", <<"object has no attribute 'get'">>)
    ELSE Return(JObj(<<
            Pair(<<"text">>, IF Truthy(resp.text) THEN resp.text ELSE JStr(<<>>)),
            Pair(<<"language">>, IF resp.kind = "object" \/ resp.language # JNull
                                 THEN resp.language ELSE JStr(<<>>)),
            Pair(<<"confidence">>, JNull),
            Pair(<<"duration_s">>, JNull),
            Pair(<<"segments">>, IF Truthy(resp.segments) THEN resp.segments ELSE JArr(<<>>))
         >>))

\* validate_transcription_payload, after result.setdefault("segments", []).
validate_transcription_payload(payload) ==
    IF \E key \in {"text", "language", "confidence", "duration_s", "segments"} :
           ~HasKey(payload, <<key>>)
    THEN DKError(<<"Transcription payload missing a field">>)
    ELSE IF Get(payload, <<"segments">>).k # "arr" THEN DKError(<<"segments must be an array">>)
    ELSE Return(payload)

\* perform_transcription from the return of the backend on.
perform_transcription_end(result) ==
    IF result.exc # "" THEN result ELSE validate_transcription_payload(result.val)

\* call_localai_chat after requests.post, up to the content of the first choice.
chat_content(resp) ==
    LET payload == http_payload(resp, "LocalAI analysis failed: ") IN
    IF payload.exc # "" THEN payload
    ELSE LET choices == Get(payload.val, <<"choices">>) IN
         IF ~Truthy(choices) THEN DKError(<<"LocalAI response missing choices">>)
         ELSE IF choices.k # "arr" THEN Raise("TypeError", <<"choices is not a list">>)
         ELSE IF choices.c[1].k # "obj"
              THEN Raise("AttributeError", <<"object has no attribute 'get'">>)
         ELSE LET message == GetOr(choices.c[1], "message", JObj(<<>>)) IN
              IF message.k # "obj"
              THEN Raise("AttributeError", <<"object has no attribute 'get'">>)
              ELSE LET content == GetOr(message, "content", JStr(<<>>)) IN
                   IF content.k # "str"
                   THEN Raise("TypeError", <<"expected string or bytes-like object">>)
                   ELSE Return(content)

\* call_localai_chat from the content of the first choice on:
\* return extract_first_json(content).
call_localai_chat(content) ==
    IF content.exc # "" THEN content ELSE extract_first_json(content.val.s)

-----------------------------------------------------------------------------
(* Transcripts the stub backend is run on: phrases joined by a separator.  *)

Phrases ==
    { <<"Agent", " ", "Bob">>, <<"Caller", " ", "Al">>, <<"Caller", " ", "Bob">>,
      <<"Agent", " ", "bob">>, <<"Agent", " ", "Agent", " ", "Bob">>,
      <<"9", ":", "0", "5", " ", "AM">>, <<"1", "2", ":", "3", "0", "pm", " ", "EST">>,
      <<"9", ":", "0", "5">>, <<"checkout">>, <<"Checkout">>, <<"config", " ", "change">>,
      <<"config">>, <<"change">>, <<"hello">>, <<"B">> }

Separators == { <<" ">>, <<".", "\n">> }

RECURSIVE Transcripts(_)
Transcripts(n) ==
    IF n = 0 THEN { <<>> }
    ELSE Transcripts(n - 1)
         \cup Phrases
         \cup { t \o sep \o p : t \in Transcripts(n - 1) \ { <<>> }, sep \in Separators, p \in Phrases }

TimezoneSettings == { Environment.default_timezone, <<"UTC">> }

StInputs == [text : Transcripts(MaxPhrases), mode : {"metadata", "rollup"}, tz : TimezoneSettings]

StubEnvironment(in) ==
    [Environment EXCEPT !.analyze_backend = "stub", !.default_timezone = in.tz]

-----------------------------------------------------------------------------
(* One run of the command line tool.                                       *)

\* The command with its options: --mode for analyze and pipeline, --out for
\* transcribe.
Invocations ==
    { [cmd |-> "transcribe", mode |-> "", out |-> FALSE],
      [cmd |-> "transcribe", mode |-> "", out |-> TRUE],
      [cmd |-> "analyze", mode |-> "metadata", out |-> FALSE],
      [cmd |-> "analyze", mode |-> "rollup", out |-> FALSE],
      [cmd |-> "pipeline", mode |-> "both", out |-> FALSE] }

\* What a transcript says, in a file or in a transcription.
TranscriptTexts == { <<"hello">>, <<"Agent", " ", "Bob", " ", "checkout">> }

RawEnvironments ==
    [TRANSCRIBE_BACKEND : {Unset, SetTo(<<" LocalAI ">>), SetTo(<<"whisper">>)},
     ANALYZE_BACKEND    : {Unset, SetTo(<<"STUB">>), SetTo(<<"gpt">>)},
     OPENAI_API_KEY     : {Unset, SetTo(<<"sk-test">>)},
     LOCALAI_TIMEOUT_S  : {Unset, SetTo(<<>>), SetTo(<<"3", "0">>), SetTo(<<" ", "7">>),
                           SetTo(<<"0">>), SetTo(<<"-", "5">>), SetTo(<<"soon">>),
                           SetTo(<<"4", ".", "5">>)},
     DEFAULT_TIMEZONE   : {Unset}]

\* The state of schemas/metadata.schema.json and schemas/rollup.schema.json.
SchemaDirectories ==
    { [metadata |-> "ok", rollup |-> "ok"],
      [metadata |-> "ok", rollup |-> "missing"],
      [metadata |-> "malformed", rollup |-> "ok"] }

SchemaFile(dir, mode) == IF mode = "metadata" THEN dir.metadata ELSE dir.rollup

ValidMetadata ==
    JObj(<<Pair(<<"summary">>, JStr(<<"ok">>)),
           Pair(<<"participants">>, JArr(<<JStr(<<"Bob">>)>>)),
           Pair(<<"sentiment">>, JStr(<<"calm">>)),
           Pair(<<"call_datetime">>, JNull),
           Pair(<<"timezone">>, JStr(<<"UTC">>)),
           Pair(<<"action_items">>, JArr(<<>>)),
           Pair(<<"issues">>, JArr(<<>>))>>)

ValidRollup ==
    JObj(<<Pair(<<"summary">>, JStr(<<"ok">>)),
           Pair(<<"incidents">>, JArr(<<Incident("outage", "down", "high")>>)),
           Pair(<<"next_steps">>, JArr(<<>>)),
           Pair(<<"status">>, JStr(<<"open">>))>>)

\* What the model answers in choices[0].message.content.
ChatContents ==
    { json_dumps(ValidMetadata),
      <<BT, BT, BT, "json", "\n">> \o json_dumps(ValidRollup)
          \o <<"\n", BT, BT, BT, " ", "thanks", "!">>,
      json_dumps(JObj(<<Pair(<<"summary">>, JNum(<<"1">>))>>)),
      <<"no", " ", "object", " ", "here">>,
      <<"{", "\"", "summary", "\"", ":">> }

\* The body of a response, as resp.json() returns it.
Json(v) == [ok |-> TRUE, val |-> v]

\* A body that is not JSON, an HTML error page for one.
NotJson == [ok |-> FALSE, val |-> JNull]

NotJsonText == <<"upstream", " ", "error">>

ChatBody(content) ==
    JObj(<<Pair(<<"choices">>,
        JArr(<<JObj(<<Pair(<<"message">>, JObj(<<Pair(<<"content">>, content)>>))>>)>>))>>)

ChatBodies ==
    {Json(ChatBody(JStr(content))) : content \in ChatContents}
    \cup { Json(ChatBody(JNull)), NotJson, Json(JArr(<<>>)), Json(JObj(<<>>)),
           Json(JObj(<<Pair(<<"choices">>, JArr(<<>>))>>)) }

TranscriptionBodies ==
    { Json(JObj(<<Pair(<<"text">>, JStr(t)), Pair(<<"language">>, JStr(<<"en">>)),
                  Pair(<<"segments">>, JArr(<<JObj(<<>>)>>))>>)) : t \in TranscriptTexts }
    \cup { Json(JObj(<<Pair(<<"text">>, JStr(t))>>)) : t \in TranscriptTexts }
    \cup { Json(JObj(<<Pair(<<"text">>, JStr(<<"hello">>)),
                       Pair(<<"segments">>, JStr(<<"none">>))>>)),
           NotJson, Json(JArr(<<>>)), Json(JObj(<<>>)) }

\* HTTP statuses: success, a redirection status, a client and a server error.
OkStatuses == {200, 304}

ErrorStatuses == {404, 503}

HttpResponses(bodies) ==
    { [raised |-> e, status |-> 0, text |-> <<>>, json |-> NotJson] :
        e \in {"Timeout", "ConnectionError"} }
    \cup [raised : {""}, status : OkStatuses, text : {<<>>}, json : bodies]
    \cup [raised : {""}, status : ErrorStatuses, text : {NotJsonText}, json : {NotJson}]

OpenAIResponses ==
    { [raised |-> "APIError", kind |-> "object", text |-> JNull, segments |-> JNull,
       language |-> JNull] }
    \cup [raised : {""}, kind : {"object", "dict"},
          text : {JStr(t) : t \in TranscriptTexts},
          segments : {JNull, JArr(<<JObj(<<>>)>>)},
          language : {JNull, JStr(<<"en">>)}]

NoException == [type |-> "", msg |-> <<>>, at |-> ""]

Exception(outcome, stage) == [type |-> outcome.exc, msg |-> outcome.msg, at |-> stage]

NoCandidate == [mode |-> "", payload |-> JNull]

CliIdle ==
    /\ inv = [cmd |-> "none", mode |-> "", out |-> FALSE]
    /\ fileKind = "file"
    /\ fileText = <<>>
    /\ rawEnv = [TRANSCRIBE_BACKEND |-> Unset, ANALYZE_BACKEND |-> Unset,
                 OPENAI_API_KEY |-> Unset, LOCALAI_TIMEOUT_S |-> Unset,
                 DEFAULT_TIMEZONE |-> Unset]
    /\ schemas = [metadata |-> "ok", rollup |-> "ok"]
    /\ settings = Environment
    /\ pc = "idle"
    /\ cur = ""
    /\ transcript = <<>>
    /\ exc = NoException
    /\ stages = <<>>
    /\ net = <<>>
    /\ transcription = JNull
    /\ metadata = JNull
    /\ rollup = JNull
    /\ analysed = NoCandidate
    /\ stdout = <<>>
    /\ outfile = <<>>
    /\ stderr = <<>>
    /\ exit = -1

CliInit ==
    /\ inv \in Invocations
    /\ fileKind \in FileKinds
    /\ fileText \in IF inv.cmd = "analyze" /\ fileKind = "file"
                    THEN TranscriptTexts ELSE { <<>> }
    /\ rawEnv \in RawEnvironments
    /\ schemas \in SchemaDirectories
    /\ settings = Environment
    /\ pc = "cli"
    /\ cur = ""
    /\ transcript = <<>>
    /\ exc = NoException
    /\ stages = <<>>
    /\ net = <<>>
    /\ transcription = JNull
    /\ metadata = JNull
    /\ rollup = JNull
    /\ analysed = NoCandidate
    /\ stdout = <<>>
    /\ outfile = <<>>
    /\ stderr = <<>>
    /\ exit = -1

\* raise: the exception travels to the except clause of the command.
Throw(outcome, stage) ==
    /\ exc' = Exception(outcome, stage)
    /\ pc' = "handler"

\* click.Path(exists=False, dir_okay=False): a path that names a directory is a
\* usage error of the option, reported by click before the command runs.
ClickParse ==
    /\ pc = "cli"
    /\ IF fileKind = "dir"
       THEN /\ stderr' = stderr \o <<"Usage: dk.py ", inv.cmd, " [OPTIONS]", "\n",
                                     "Error: Invalid value for '--input': is a directory.", "\n">>
            /\ exit' = 2
            /\ exc' = [type |-> "UsageError", msg |-> <<"is a directory">>, at |-> "cli"]
            /\ pc' = "exit"
       ELSE /\ pc' = "load_env"
            /\ UNCHANGED <<stderr, exit, exc>>
    /\ UNCHANGED <<inv, fileKind, fileText, rawEnv, schemas, settings, cur, transcript, stages, net,
                   transcription, metadata, rollup, analysed, stdout, outfile, exVars, stVars>>

\* env = load_environment(), the first statement of every command.
LoadEnvironment ==
    /\ pc = "load_env"
    /\ LET loaded == load_environment(rawEnv) IN
       IF loaded.exc # ""
       THEN /\ Throw(loaded, "config")
            /\ UNCHANGED settings
       ELSE /\ settings' = loaded.env
            /\ pc' = IF inv.cmd = "analyze" THEN "read_input" ELSE "transcription"
            /\ UNCHANGED exc
    /\ UNCHANGED <<inv, fileKind, fileText, rawEnv, schemas, cur, transcript, stages, net,
                   transcription, metadata, rollup, analysed, stdout, outfile, stderr, exit,
                   exVars, stVars>>

\* analyze: ensure_file_exists(input_path); text = input_path.read_text().
ReadInput ==
    /\ pc = "read_input"
    /\ LET found == ensure_file_exists(fileKind, "input") IN
       IF found.exc # ""
          THEN /\ Throw(found, "input")
               /\ UNCHANGED <<transcript, cur>>
          ELSE /\ transcript' = fileText
               /\ cur' = inv.mode
               /\ pc' = "analysis"
               /\ UNCHANGED exc
    /\ UNCHANGED <<inv, fileKind, fileText, rawEnv, schemas, settings, stages, net,
                   transcription, metadata, rollup, analysed, stdout, outfile, stderr, exit,
                   exVars, stVars>>

Call(api, timeout) == [api |-> api, timeout |-> timeout, status |-> 0, used |-> FALSE]

\* perform_transcription up to the remote call: the file check, the choice of the
\* backend, the credential check of transcribe_openai, the request.
BeginTranscription ==
    /\ pc = "transcription"
    /\ stages' = Append(stages, "transcribe")
    /\ LET found == ensure_file_exists(fileKind, "input") IN
       IF found.exc # ""
          THEN Throw(found, "transcribe") /\ UNCHANGED net
          ELSE IF settings.transcribe_backend = "openai"
          THEN IF settings.openai_api_key = ""
               THEN /\ Throw(DKError(<<"OPENAI_API_KEY is required for OpenAI transcription">>),
                             "transcribe")
                    /\ UNCHANGED net
               ELSE /\ net' = Append(net, Call("openai_stt", -1))
                    /\ pc' = "stt_wait"
                    /\ UNCHANGED exc
          ELSE IF settings.transcribe_backend = "localai"
          THEN /\ net' = Append(net, Call("localai_stt", settings.localai_timeout))
               /\ pc' = "stt_wait"
               /\ UNCHANGED exc
          ELSE /\ Throw(DKError(<<"Unsupported TRANSCRIBE_BACKEND: ", settings.transcribe_backend>>),
                        "transcribe")
               /\ UNCHANGED net
    /\ UNCHANGED <<inv, fileKind, fileText, rawEnv, schemas, settings, cur, transcript,
                   transcription, metadata, rollup, analysed, stdout, outfile, stderr, exit,
                   exVars, stVars>>

\* The last call of net, answered: its status, and whether its body was used.
Answered(calls, status, used) ==
    [calls EXCEPT ![Len(calls)] = [@ EXCEPT !.status = status, !.used = used]]

\* The transcription of the pipeline is in hand: transcript = transcription.get("text", "").
AfterTranscription(result) ==
    /\ transcription' = result
    /\ IF inv.cmd = "transcribe"
       THEN pc' = "write" /\ UNCHANGED <<transcript, cur>>
       ELSE /\ transcript' = IF Get(result, <<"text">>).k = "str" THEN Get(result, <<"text">>).s ELSE <<>>
            /\ cur' = "metadata"
            /\ pc' = "analysis"

\* perform_transcription from the answer of the backend on.
EndTranscription ==
    /\ pc = "stt_wait"
    /\ \E resp \in IF settings.transcribe_backend = "openai" THEN OpenAIResponses
                   ELSE HttpResponses(TranscriptionBodies) :
          LET backend == IF settings.transcribe_backend = "openai" THEN transcribe_openai(resp)
                         ELSE transcribe_localai(resp)
              result == perform_transcription_end(backend)
          IN /\ net' = Answered(net, IF settings.transcribe_backend = "openai" THEN 0 ELSE resp.status,
                                backend.exc = "")
             /\ IF result.exc # ""
                THEN /\ Throw(result, "transcribe")
                     /\ UNCHANGED <<transcription, transcript, cur>>
                ELSE /\ AfterTranscription(result.val)
                     /\ UNCHANGED exc
    /\ UNCHANGED <<inv, fileKind, fileText, rawEnv, schemas, settings, stages,
                   metadata, rollup, analysed, stdout, outfile, stderr, exit, exVars, stVars>>

\* The stage that follows a finished analysis: the pipeline runs rollup after
\* metadata; "" stands for the statements that write the output.
NextStage_no_rollup(cmd, stage) == ""

NextStage(cmd, stage) == IF cmd = "pipeline" /\ stage = "metadata" THEN "rollup" ELSE ""

\* perform_analysis returned result for the mode cur.
AfterAnalysis(result) ==
    /\ IF cur = "metadata"
       THEN metadata' = result /\ UNCHANGED rollup
       ELSE rollup' = result /\ UNCHANGED metadata
    /\ IF NextStage(inv.cmd, cur) = ""
       THEN pc' = "write" /\ UNCHANGED cur
       ELSE pc' = "analysis" /\ cur' = NextStage(inv.cmd, cur)

\* perform_analysis up to its return (stub), its raise, or the request of
\* call_localai_chat.
BeginAnalysis ==
    /\ pc = "analysis"
    /\ stages' = Append(stages, cur)
    /\ LET begun == perform_analysis_begin(transcript, cur, settings, SchemaFile(schemas, cur)) IN
       IF begun.exc = "call"
       THEN /\ net' = Append(net, Call("localai_chat", settings.localai_timeout))
            /\ pc' = "chat_wait"
            /\ UNCHANGED <<exc, metadata, rollup, cur, analysed>>
       ELSE /\ analysed' = IF settings.analyze_backend = "stub"
                            THEN [mode |-> cur,
                                  payload |-> IF cur = "metadata"
                                              THEN build_metadata_stub(transcript, settings)
                                              ELSE build_rollup_stub(transcript, settings)]
                            ELSE analysed
            /\ UNCHANGED net
            /\ IF begun.exc # ""
               THEN /\ Throw(begun, cur)
                    /\ UNCHANGED <<metadata, rollup, cur>>
               ELSE /\ AfterAnalysis(begun.val)
                    /\ UNCHANGED exc
    /\ UNCHANGED <<inv, fileKind, fileText, rawEnv, schemas, settings, transcript, transcription,
                   stdout, outfile, stderr, exit, exVars, stVars>>

\* perform_analysis from the answer of the chat endpoint on.
EndAnalysis ==
    /\ pc = "chat_wait"
    /\ \E resp \in HttpResponses(ChatBodies) :
       \E content \in {chat_content(resp)} :
       \E raw_output \in {call_localai_chat(content)} :
       \E result \in {perform_analysis_end(raw_output, cur, SchemaFile(schemas, cur))} :
          /\ net' = Answered(net, resp.status, content.exc = "")
          /\ analysed' = IF raw_output.exc = ""
                          THEN [mode |-> cur, payload |-> raw_output.val]
                          ELSE analysed
          /\ IF result.exc # ""
             THEN /\ Throw(result, cur)
                  /\ UNCHANGED <<metadata, rollup, cur>>
             ELSE /\ AfterAnalysis(result.val)
                  /\ UNCHANGED exc
    /\ UNCHANGED <<inv, fileKind, fileText, rawEnv, schemas, settings, transcript, stages, transcription,
                   stdout, outfile, stderr, exit, exVars, stVars>>

\* The payload a command serializes once its stages are done.
OutputPayload ==
    CASE inv.cmd = "transcribe" -> transcription
      [] inv.cmd = "analyze" -> IF cur = "metadata" THEN metadata ELSE rollup
      [] OTHER -> JObj(<<Pair(<<"transcription">>, transcription),
                         Pair(<<"metadata">>, metadata),
                         Pair(<<"rollup">>, rollup)>>)

\* json.dumps(...) and sys.stdout.write, or output_path.write_text for --out; the
\* command returns and the process exits with status 0.
WriteOutput ==
    /\ pc = "write"
    /\ IF inv.out
       THEN outfile' = Append(outfile, OutputPayload) /\ UNCHANGED stdout
       ELSE stdout' = Append(stdout, OutputPayload) /\ UNCHANGED outfile
    /\ exit' = 0
    /\ pc' = "exit"
    /\ UNCHANGED <<inv, fileKind, fileText, rawEnv, schemas, settings, cur, transcript, exc, stages, net,
                   transcription, metadata, rollup, analysed, stderr, exVars, stVars>>

ErrorCode(cmd) ==
    CASE cmd = "transcribe" -> "transcribe_error"
      [] cmd = "analyze" -> "analysis_error"
      [] OTHER -> "pipeline_error"

\* emit_error: one line of JSON on stderr.
emit_error(message, code) ==
    json_dumps(JObj(<<Pair(<<"error">>, JStr(message)), Pair(<<"code">>, JStr(<<code>>))>>))
    \o <<"\n">>

\* What the interpreter prints for an exception nothing caught.
Traceback(e) == <<"Traceback (most recent call last):", "\n", e.type, ":", " ">> \o e.msg \o <<"\n">>

\* except DKError as exc: emit_error(str(exc), code=...), which ends in sys.exit(1).
\* Any other exception leaves the command: the interpreter prints its traceback
\* and exits with status 1.
HandleException ==
    /\ pc = "handler"
    /\ stderr' = stderr \o (IF exc.type = "DKError" THEN emit_error(exc.msg, ErrorCode(inv.cmd))
                            ELSE Traceback(exc))
    /\ exit' = 1
    /\ pc' = "exit"
    /\ UNCHANGED <<inv, fileKind, fileText, rawEnv, schemas, settings, cur, transcript, exc, stages, net,
                   transcription, metadata, rollup, analysed, stdout, outfile, exVars, stVars>>

Next ==
    \/ ClickParse
    \/ LoadEnvironment
    \/ ReadInput
    \/ BeginTranscription
    \/ EndTranscription
    \/ BeginAnalysis
    \/ EndAnalysis
    \/ WriteOutput
    \/ HandleException

-----------------------------------------------------------------------------
(* The three specifications.                                               *)

NoResult == Raise("pending", <<>>)

ExIdle ==
    /\ exIn = [prefix |-> <<>>, open |-> <<>>, x |-> JNull, cut |-> 0,
               close |-> <<>>, suffix |-> <<>>]
    /\ exText = <<>>
    /\ exResult = NoResult

StIdle ==
    /\ stIn = [text |-> <<>>, mode |-> "metadata", tz |-> <<"UTC">>]
    /\ stResult = NoResult

ExInit ==
    /\ exIn \in ExInputs
    /\ exText = ExCompose(exIn)
    /\ exResult = NoResult
    /\ StIdle
    /\ CliIdle

StInit ==
    /\ stIn \in StInputs
    /\ stResult = NoResult
    /\ ExIdle
    /\ CliIdle

\* content -> extract_first_json(content), as call_localai_chat ends.
ExtractStep ==
    /\ exResult = NoResult
    /\ exResult' = extract_first_json(exText)
    /\ UNCHANGED <<exIn, exText, stVars, cliVars>>

\* perform_analysis(text, mode, env) with ANALYZE_BACKEND=stub and both schema files
\* in place.
StubAnalysisStep ==
    /\ stResult = NoResult
    /\ stResult' = perform_analysis_begin(stIn.text, stIn.mode, StubEnvironment(stIn), "ok")
    /\ UNCHANGED <<stIn, exVars, cliVars>>

ExNext == ExtractStep

StNext == StubAnalysisStep

SpecExtract == ExInit /\ [][ExNext]_vars

SpecStub == StInit /\ [][StNext]_vars

Init == CliInit /\ ExIdle /\ StIdle

Spec == Init /\ [][Next]_vars


-----------------------------------------------------------------------------
(* Properties of the Response Extractor.                                   *)

\* Every key and every string value inside v.
RECURSIVE StringsOf(_)
StringsOf(v) ==
    (IF v.k \in {"str", "pair"} THEN {v.s} ELSE {})
    \cup UNION {StringsOf(v.c[i]) : i \in 1..Len(v.c)}

\* Every string value inside v, keys left out.
RECURSIVE StringValuesOf(_)
StringValuesOf(v) ==
    (IF v.k = "str" THEN {v.s} ELSE {})
    \cup UNION {StringValuesOf(v.c[i]) : i \in 1..Len(v.c)}

RECURSIVE BraceDepths(_, _)
BraceDepths(chars, depth) ==
    IF chars = <<>> THEN <<depth>>
    ELSE <<depth>> \o BraceDepths(Tail(chars),
             depth + (IF Head(chars) = "{" THEN 1 ELSE 0) - (IF Head(chars) = "}" THEN 1 ELSE 0))

\* Every "}" of chars closes an earlier "{" of chars, and no "{" stays open.
BalancedBraces(chars) ==
    LET d == BraceDepths(chars, 0) IN
    d[Len(d)] = 0 /\ \A i \in 1..Len(d) : d[i] >= 0

HasFence(chars) == \E i \in 1..Len(chars) : IsFenceAt(chars, i)

ExDone == exResult # NoResult

\* The response is the serialization and nothing else.
ExClean ==
    exIn.prefix = <<>> /\ exIn.open = <<>> /\ exIn.close = <<>> /\ exIn.suffix = <<>>
    /\ exIn.cut = 0

\* C7, as stated: extractJson(json.stringify(x)) == x for any JSON-serializable x
\* whose string values hold no unbalanced braces.
C7_RoundTripAnyValue ==
    (ExDone /\ ExClean /\ \A str \in StringValuesOf(exIn.x) : BalancedBraces(str))
        => exResult = Return(exIn.x)

\* C7, amended: the round trip holds for every JSON object x whose keys and string
\* values hold only balanced braces and no fence marker; extract_first_json of the
\* serialization of x returns x.
C7_RoundTripObject ==
    (ExDone /\ ExClean /\ exIn.x.k = "obj"
        /\ \A str \in StringsOf(exIn.x) : BalancedBraces(str) /\ ~HasFence(str))
        => exResult = Return(exIn.x)

\* A nested object with braces inside a string value went through the round trip.
C7_Witness ==
    /\ ExDone /\ ExClean
    /\ exIn.x = JObj(<<Pair(<<"k">>, JObj(<<Pair(<<"k">>, JStr(<<"{", "}">>))>>))>>)
    /\ exResult = Return(exIn.x)

\* C10, as stated: whatever prose or fence surrounds it, and whatever its nesting,
\* the JSON object that starts at the first brace of the text is what extractJson
\* returns.
C10_ShortestObjectAnyStrings ==
    (ExDone /\ exIn.x.k = "obj" /\ exIn.cut = 0) => exResult = Return(exIn.x)

\* C10, amended: prose without "{" before the object, a fence around it, text after
\* its closing brace and its nesting do not change the result, which is the object
\* that starts at the first brace, provided the keys and string values of the
\* object hold only balanced braces and no fence marker.
C10_ShortestObject ==
    (ExDone /\ exIn.x.k = "obj" /\ exIn.cut = 0
        /\ \A str \in StringsOf(exIn.x) : BalancedBraces(str) /\ ~HasFence(str))
        => exResult = Return(exIn.x)

\* A nested object inside prose, a json fence and trailing text was extracted.
C10_Witness ==
    /\ ExDone
    /\ exIn.prefix = <<"Sure", ":", " ">>
    /\ exIn.open = <<BT, BT, BT, "json", "\n">>
    /\ exIn.close = <<"\n", BT, BT, BT>>
    /\ exIn.suffix = <<" ", "thanks", "!">>
    /\ exIn.cut = 0
    /\ exIn.x = JObj(<<Pair(<<"k">>, JObj(<<Pair(<<"k">>, JNum(<<"1">>))>>)),
                       Pair(<<"j">>, JNum(<<"1">>))>>)
    /\ exResult = Return(exIn.x)

-----------------------------------------------------------------------------
(* Properties of the stub analysis backend.                                *)

StDone == stResult # NoResult

\* C3: with the stub backend, for every transcript and both modes, the analysis
\* returns (nothing is raised) and what it returns is accepted by the schema of
\* the mode.
C3_StubSchemaValid ==
    StDone => (stResult.exc = "" /\ SchemaAccepts(stResult.val, stIn.mode))

\* The empty transcript, which names neither keyword, gave a rollup with no incident.
C3_Witness ==
    /\ StDone
    /\ stIn.text = <<>>
    /\ stIn.mode = "rollup"
    /\ stResult.exc = ""
    /\ Get(stResult.val, <<"incidents">>) = JArr(<<>>)

\* A transcript with a time, both keywords and a participant gave metadata.
C3_WitnessMetadata ==
    /\ StDone
    /\ stIn.mode = "metadata"
    /\ stResult.exc = ""
    /\ Get(stResult.val, <<"call_datetime">>) = JStr(<<"9", ":", "0", "5", " ", "AM">>)
    /\ Get(stResult.val, <<"issues">>) = StringArray(<<"Checkout API timeouts">>)

-----------------------------------------------------------------------------
(* Properties of one run of the command line tool.                         *)

\* The process has exited.
Done == pc = "exit"

\* An exception left a stage of the command (click's own rejection of the
\* arguments is not one).
StageFailed == exc.type \notin {"", "UsageError"}

\* text is one line that holds one JSON object with an error and a code member
\* and nothing else: one ErrorEnvelope.
IsErrorEnvelope(text) ==
    /\ text # <<>>
    /\ text[Len(text)] = "\n"
    /\ LET doc == json_loads(SubSeq(text, 1, Len(text) - 1)) IN
       /\ doc.ok
       /\ doc.val.k = "obj"
       /\ Len(doc.val.c) = 2
       /\ HasKey(doc.val, <<"error">>)
       /\ HasKey(doc.val, <<"code">>)

\* C1: whatever made a stage fail, the invocation ends with a non-zero exit status
\* and with exactly one ErrorEnvelope on stderr.
C1_FailureGivesOneEnvelope ==
    (Done /\ StageFailed) => (exit # 0 /\ IsErrorEnvelope(stderr))

\* C2: when the input path names no regular file (nothing, a directory, something
\* else), every command under every backend selection ends with a non-zero exit
\* status and a stderr payload that begins with "{" and has an error and a code
\* member.
C2_NoRegularFileGivesEnvelope ==
    (Done /\ fileKind # "file") =>
        (exit # 0 /\ stderr # <<>> /\ stderr[1] = "{" /\ IsErrorEnvelope(stderr))

\* C4: every analysis result on stdout (the payload of analyze; the metadata and
\* rollup members of the pipeline payload) is accepted by the schema of its mode,
\* with either backend; and once a payload that its schema rejects was built or
\* extracted, nothing is on stdout and the process exits with a non-zero status.
C4_AnalysisOutputsValidated ==
    /\ \A i \in 1..Len(stdout) :
          /\ inv.cmd = "analyze" => SchemaAccepts(stdout[i], inv.mode)
          /\ inv.cmd = "pipeline" =>
                /\ SchemaAccepts(Get(stdout[i], <<"metadata">>), "metadata")
                /\ SchemaAccepts(Get(stdout[i], <<"rollup">>), "rollup")
    /\ (analysed.mode # "" /\ ~SchemaAccepts(analysed.payload, analysed.mode)) =>
          (stdout = <<>> /\ pc # "write" /\ (Done => exit # 0))

\* The pipeline took a valid metadata answer from LocalAI, then a rollup answer
\* that the rollup schema rejects, and failed without output.
C4_Witness ==
    /\ Done
    /\ inv.cmd = "pipeline"
    /\ settings.analyze_backend = "localai"
    /\ SchemaAccepts(metadata, "metadata")
    /\ analysed.mode = "rollup"
    /\ ~SchemaAccepts(analysed.payload, "rollup")
    /\ exc.type = "DKError"
    /\ stdout = <<>>
    /\ exit = 1

PipelineStages == <<"transcribe", "metadata", "rollup">>

\* C5: in pipeline mode the stages started are a prefix of transcribe, metadata,
\* rollup (that order, each at most once); the stage that failed is the last one
\* started and nothing is on stdout then; and stdout holds a document only after
\* all three stages ran without a failure, the one document with their three
\* results under transcription, metadata and rollup.
C5_PipelineStageOrder ==
    inv.cmd = "pipeline" =>
        /\ \E n \in 0..3 : stages = SubSeq(PipelineStages, 1, n)
        /\ StageFailed =>
              /\ stdout = <<>>
              /\ IF exc.at = "config" THEN stages = <<>>
                 ELSE stages # <<>> /\ exc.at = stages[Len(stages)]
        /\ stdout # <<>> =>
              /\ stages = PipelineStages
              /\ exc.type = ""
              /\ transcription # JNull /\ metadata # JNull /\ rollup # JNull
              /\ stdout = <<JObj(<<Pair(<<"transcription">>, transcription),
                                   Pair(<<"metadata">>, metadata),
                                   Pair(<<"rollup">>, rollup)>>)>>

\* A pipeline run went through its three stages and wrote its one document.
C5_Witness ==
    /\ Done
    /\ inv.cmd = "pipeline"
    /\ stages = PipelineStages
    /\ Len(stdout) = 1
    /\ exit = 0

\* A pipeline run failed in the metadata stage, after the transcription.
C5_WitnessFailure ==
    /\ Done
    /\ inv.cmd = "pipeline"
    /\ stages = <<"transcribe", "metadata">>
    /\ exc.at = "metadata"
    /\ stdout = <<>>
    /\ exit = 1

ConfigurationError ==
    [type |-> "DKError", msg |-> <<"LOCALAI_TIMEOUT_S must be an integer">>, at |-> "config"]

C8_NonSuccessStatusBodyUnused ==
    \A i \in 1..Len(net) :
        (net[i].api \in {"localai_stt", "localai_chat"}
            /\ net[i].status # 0 /\ net[i].status \notin 200..299) =>
                (~net[i].used /\ exc.type = "DKError")

\* C9: the Settings a command works with, and the timeout of every call to
\* LocalAI, hold a positive number of seconds, 45 when LOCALAI_TIMEOUT_S is absent.
C9_TimeoutPositive ==
    /\ settings.localai_timeout > 0
    /\ (pc \notin {"cli", "load_env"} /\ ~rawEnv.LOCALAI_TIMEOUT_S.set) =>
          settings.localai_timeout = 45
    /\ \A i \in 1..Len(net) :
          net[i].api \in {"localai_stt", "localai_chat"} => net[i].timeout > 0

=============================================================================
